---- MODULE Spec2Model ----
(***************************************************************************)
(* A model of package plog (src/plog.go): one Logger shared by goroutines  *)
(* that call its setters, its emission methods and Line.                   *)
(*                                                                         *)
(* Strings are sequences of atoms (an atom is a piece of text without a    *)
(* newline, or the newline "\n" itself), so that fmt.Sprintf's             *)
(* concatenations are sequence concatenations and a line can be inspected. *)
(* Every access to a field of the Logger and every Lock/Unlock is a step   *)
(* of its own; the sink's Write delivers its buffer in two parts, so that  *)
(* only the mutex keeps two writes apart.                                  *)
(***************************************************************************)
EXTENDS Integers, Sequences, FiniteSets, TLC

\* ---------------------------------------------------------------- bounds

\* Calls made in one run, all goroutines together: by two goroutines that race
\* (Spec), by one goroutine alone (SeqSpec), by one goroutine that only logs
\* (FmtSpec).
MaxCalls == 2
MaxSeqCalls == 3
MaxFmtCalls == 1
\* Calls made in one run by one goroutine that logs and switches colours (ColSpec).
MaxColCalls == 3
\* Calls made in one run by one goroutine that passes every argument (SetSpec).
MaxSetCalls == 2
\* Calls made in one run by two goroutines that are scheduled fairly (LiveSpec).
MaxLiveCalls == 2

Threads == {"t1", "t2"}
Sinks == {"w1", "w2"}
NoThread == "none"

\* ------------------------------------------------------------- constants

RequireTimestamp == 1
RequireLevel == 2
RequireCaller == 4

LevelDebug == 0
LevelInfo == 1
LevelWarn == 2
LevelError == 3
LevelFatal == 4

RECURSIVE BitAnd(_, _)
BitAnd(a, b) ==
    IF a = 0 \/ b = 0 THEN 0
    ELSE (a % 2) * (b % 2) + 2 * BitAnd(a \div 2, b \div 2)

RECURSIVE BitOr(_, _)
BitOr(a, b) ==
    IF a = 0 THEN b
    ELSE IF b = 0 THEN a
    ELSE (IF a % 2 = 1 \/ b % 2 = 1 THEN 1 ELSE 0) + 2 * BitOr(a \div 2, b \div 2)

RequireAll == BitOr(RequireCaller, BitOr(RequireLevel, RequireTimestamp))

levelRange(level) == level >= 0 /\ level <= LevelFatal

colorReset == "\\033[0m"
colorBlue == "\\033[34m"
colorGreen == "\\033[32m"
colorYellow == "\\033[33m"
colorRed == "\\033[31m"
colorBoldRed == "\\033[1;31m"

\* The errors the package makes with fmt.Errorf, and the sink's own error.
ErrLevelRange == "level value is out of range"
ErrDisabled == "logger is disabled"
ErrIgnored == "logger ingores given level logs"
ErrWrite == "write error"
Nil == "nil"
NoValue == "none"

\* ---------------------------------------------------------------- inputs

\* Level arguments: the five levels and one value beyond each end.
LevelArgs == (LevelDebug - 1)..(LevelFatal + 1)
\* Requirement masks: every combination of the three bits, and one unknown bit.
MaskArgs == 0..(RequireAll + 1)
\* fmt.Sprintf(format, attrs...) of each goroutine's call: an atom without newline.
Message(t) == <<"msg-" \o t>>
NL == "\n"

\* ----------------------------------------------------------------- state

VARIABLES
    level,      \* Logger.level
    output,     \* Logger.output: the sink in use
    require,    \* Logger.require
    enabled,    \* Logger.enabled
    colored,    \* Logger.colored
    mu,         \* Logger.mu: the goroutine holding it, or NoThread
    sinks,      \* what each io.Writer has received: a sequence of chunks
    fr,         \* each goroutine's frame: position, method, arguments, locals
    tally,      \* counted so far: calls made, emissions past both gates, writes refused
    exited      \* os.Exit has been called

vars == <<level, output, require, enabled, colored, mu, sinks, fr, tally, exited>>
config == <<level, output, require, enabled, colored>>

IdleFrame ==
    [pc |-> "idle", op |-> NoValue, level |-> 0, req |-> 0, flag |-> FALSE,
     out |-> NoValue, stats |-> <<>>, ret |-> NoValue, werr |-> NoValue]

\* The text a sink holds: its chunks, concatenated.
RECURSIVE Flat(_)
Flat(chunks) ==
    IF chunks = <<>> THEN <<>> ELSE Head(chunks).text \o Flat(Tail(chunks))

\* ------------------------------------------------------------ formatting

Sprintf_s_s(a, b) == a \o <<" ">> \o b
Sprintf_br_s(a, b) == <<"[">> \o a \o <<"]", " ">> \o b
Fprintf_s_s_nl(a, b) == a \o <<" ">> \o b \o <<NL>>

getColoredLevel(lv) ==
    CASE lv = LevelDebug -> <<colorBlue, "DEBUG", colorReset>>
      [] lv = LevelInfo -> <<colorGreen, "INFO", colorReset>>
      [] lv = LevelWarn -> <<colorYellow, "WARN", colorReset>>
      [] lv = LevelError -> <<colorRed, "ERROR", colorReset>>
      [] lv = LevelFatal -> <<colorBoldRed, "FATAL", colorReset>>
      [] OTHER -> <<"INVALID">>

getRegularLevel(lv) ==
    CASE lv = LevelDebug -> <<"DEBUG">>
      [] lv = LevelInfo -> <<"INFO">>
      [] lv = LevelWarn -> <<"WARN">>
      [] lv = LevelError -> <<"ERROR">>
      [] lv = LevelFatal -> <<"FATAL">>
      [] OTHER -> <<"INVALID">>

getTimestamp == <<"2006-01-02 15:04:05">>

\* runtime.Caller(3) seen from getCall is the caller of Log, Debug, ...
getCall(skip, t) ==
    IF skip = 3 THEN <<"main.go:1 (main." \o t \o ")">> ELSE <<"unknown">>

\* ------------------------------------------------------------------ init

\* NewLogger(level, output, outputRequirements, containAnsi) with a level in range.
NewLogger(lv, out, req, ansi) ==
    /\ levelRange(lv)
    /\ level = lv
    /\ output = out
    /\ require = req
    /\ enabled = TRUE
    /\ colored = ansi
    /\ mu = NoThread

\* Before NewLogger has returned there is no Logger: no sink, no field set.
NoLogger ==
    /\ level = 0
    /\ output = NoValue
    /\ require = 0
    /\ enabled = FALSE
    /\ colored = FALSE
    /\ mu = NoThread

\* --------------------------------------------------------------- helpers

At(t, p) == ~exited /\ fr[t].pc = p
Goto(t, p) == fr' = [fr EXCEPT ![t].pc = p]
Lock(t) == mu = NoThread /\ mu' = t
Unlock(t) == mu' = NoThread
CanCall(t, D) == At(t, "idle") /\ tally.calls < D.max
Enter(t, f) == fr' = [fr EXCEPT ![t] = f] /\ tally' = [tally EXCEPT !.calls = @ + 1]

\* ----------------------------------------------------------- constructor

\* Faulty variant: NewLogger tests the range the way SetLevel does.
CallNewLoggerInverted(t) ==
    /\ At(t, "new")
    /\ IF levelRange(fr[t].level)
          THEN /\ UNCHANGED <<config, mu>>
               /\ fr' = [fr EXCEPT ![t].pc = "no_logger", ![t].ret = ErrLevelRange]
          ELSE /\ level' = fr[t].level /\ output' = fr[t].out /\ require' = fr[t].req
               /\ enabled' = TRUE /\ colored' = fr[t].flag /\ mu' = NoThread
               /\ fr' = [fr EXCEPT ![t].pc = "done", ![t].ret = Nil]
    /\ UNCHANGED <<sinks, tally, exited>>

\* plog.go 98-103: the call of NewLogger with the arguments held in the frame.
\* With a level out of range it returns nil and the error: the caller holds no
\* Logger and can make no call.
CallNewLogger(t) ==
    /\ At(t, "new")
    /\ IF levelRange(fr[t].level)
          THEN /\ level' = fr[t].level /\ output' = fr[t].out /\ require' = fr[t].req
               /\ enabled' = TRUE /\ colored' = fr[t].flag /\ mu' = NoThread
               /\ \E lv \in {fr[t].level}, out \in {fr[t].out}, req \in {fr[t].req},
                     ansi \in {fr[t].flag} : NewLogger(lv, out, req, ansi)'
               /\ fr' = [fr EXCEPT ![t].pc = "done", ![t].ret = Nil]
          ELSE /\ UNCHANGED <<config, mu>>
               /\ fr' = [fr EXCEPT ![t].pc = "no_logger", ![t].ret = ErrLevelRange]
    /\ UNCHANGED <<sinks, tally, exited>>

\* --------------------------------------------------------------- setters

CallSetLevel(t, D) ==
    /\ CanCall(t, D)
    /\ \E lv \in D.levels :
          Enter(t, [IdleFrame EXCEPT !.pc = "sl_check", !.op = "SetLevel", !.level = lv])
    /\ UNCHANGED <<config, mu, sinks, exited>>

SetLevelCheck(t) ==
    /\ At(t, "sl_check")
    /\ IF levelRange(fr[t].level)
          THEN fr' = [fr EXCEPT ![t].pc = "done", ![t].ret = ErrLevelRange]
          ELSE Goto(t, "sl_lock")
    /\ UNCHANGED <<config, mu, sinks, tally, exited>>

SetLevelLock(t) ==
    /\ At(t, "sl_lock")
    /\ Lock(t)
    /\ Goto(t, "sl_set")
    /\ UNCHANGED <<config, sinks, tally, exited>>

SetLevelAssign(t) ==
    /\ At(t, "sl_set")
    /\ level' = fr[t].level
    /\ Goto(t, "sl_unlock")
    /\ UNCHANGED <<output, require, enabled, colored, mu, sinks, tally, exited>>

SetLevelUnlock(t) ==
    /\ At(t, "sl_unlock")
    /\ Unlock(t)
    /\ fr' = [fr EXCEPT ![t].pc = "done", ![t].ret = Nil]
    /\ UNCHANGED <<config, sinks, tally, exited>>

CallSetWriter(t, D) ==
    /\ CanCall(t, D)
    /\ \E w \in D.sinks :
          Enter(t, [IdleFrame EXCEPT !.pc = "sw_lock", !.op = "SetWriter", !.out = w])
    /\ UNCHANGED <<config, mu, sinks, exited>>

SetWriterLock(t) ==
    /\ At(t, "sw_lock")
    /\ Lock(t)
    /\ Goto(t, "sw_set")
    /\ UNCHANGED <<config, sinks, tally, exited>>

\* Faulty variant: SetWriter switches the logger on as well.
SetWriterAssignEnables(t) ==
    /\ At(t, "sw_set")
    /\ output' = fr[t].out
    /\ enabled' = TRUE
    /\ Goto(t, "sw_unlock")
    /\ UNCHANGED <<level, require, colored, mu, sinks, tally, exited>>

SetWriterAssign(t) ==
    /\ At(t, "sw_set")
    /\ output' = fr[t].out
    /\ Goto(t, "sw_unlock")
    /\ UNCHANGED <<level, require, enabled, colored, mu, sinks, tally, exited>>

SetWriterUnlock(t) ==
    /\ At(t, "sw_unlock")
    /\ Unlock(t)
    /\ Goto(t, "done")
    /\ UNCHANGED <<config, sinks, tally, exited>>

CallSetRequirements(t, D) ==
    /\ CanCall(t, D)
    /\ \E req \in D.masks :
          Enter(t, [IdleFrame EXCEPT !.pc = "sr_lock", !.op = "SetRequirements", !.req = req])
    /\ UNCHANGED <<config, mu, sinks, exited>>

SetRequirementsLock(t) ==
    /\ At(t, "sr_lock")
    /\ Lock(t)
    /\ Goto(t, "sr_set")
    /\ UNCHANGED <<config, sinks, tally, exited>>

SetRequirementsAssign(t) ==
    /\ At(t, "sr_set")
    /\ require' = fr[t].req
    /\ Goto(t, "sr_unlock")
    /\ UNCHANGED <<level, output, enabled, colored, mu, sinks, tally, exited>>

SetRequirementsUnlock(t) ==
    /\ At(t, "sr_unlock")
    /\ Unlock(t)
    /\ Goto(t, "done")
    /\ UNCHANGED <<config, sinks, tally, exited>>

CallSetActivity(t, D) ==
    /\ CanCall(t, D)
    /\ \E b \in BOOLEAN :
          Enter(t, [IdleFrame EXCEPT !.pc = "sa_lock", !.op = "SetActivity", !.flag = b])
    /\ UNCHANGED <<config, mu, sinks, exited>>

\* Faulty variant: SetActivity assigns without taking the lock.
SetActivityLockSkipped(t) ==
    /\ At(t, "sa_lock")
    /\ Goto(t, "sa_set")
    /\ UNCHANGED <<config, mu, sinks, tally, exited>>

SetActivityLock(t) ==
    /\ At(t, "sa_lock")
    /\ Lock(t)
    /\ Goto(t, "sa_set")
    /\ UNCHANGED <<config, sinks, tally, exited>>

SetActivityAssign(t) ==
    /\ At(t, "sa_set")
    /\ enabled' = fr[t].flag
    /\ Goto(t, "sa_unlock")
    /\ UNCHANGED <<level, output, require, colored, mu, sinks, tally, exited>>

SetActivityUnlock(t) ==
    /\ At(t, "sa_unlock")
    /\ Unlock(t)
    /\ Goto(t, "done")
    /\ UNCHANGED <<config, sinks, tally, exited>>

CallSetColoring(t, D) ==
    /\ CanCall(t, D)
    /\ \E b \in BOOLEAN :
          Enter(t, [IdleFrame EXCEPT !.pc = "sc_lock", !.op = "SetColoring", !.flag = b])
    /\ UNCHANGED <<config, mu, sinks, exited>>

SetColoringLock(t) ==
    /\ At(t, "sc_lock")
    /\ Lock(t)
    /\ Goto(t, "sc_set")
    /\ UNCHANGED <<config, sinks, tally, exited>>

SetColoringAssign(t) ==
    /\ At(t, "sc_set")
    /\ colored' = fr[t].flag
    /\ Goto(t, "sc_unlock")
    /\ UNCHANGED <<level, output, require, enabled, mu, sinks, tally, exited>>

SetColoringUnlock(t) ==
    /\ At(t, "sc_unlock")
    /\ Unlock(t)
    /\ Goto(t, "done")
    /\ UNCHANGED <<config, sinks, tally, exited>>

\* -------------------------------------------------------------- emission

\* Log(level, ...), Debug, Info, Warn, Error and Fatal all run print(level, ...).
EmitLevels(m, D) ==
    CASE m = "Log" -> D.levels
      [] m = "Debug" -> {LevelDebug}
      [] m = "Info" -> {LevelInfo}
      [] m = "Warn" -> {LevelWarn}
      [] m = "Error" -> {LevelError}
      [] m = "Fatal" -> {LevelFatal}

EmitOps == {"Log", "Debug", "Info", "Warn", "Error", "Fatal"}

CallEmit(t, D) ==
    /\ CanCall(t, D)
    /\ \E m \in D.ops : \E lv \in EmitLevels(m, D) :
          Enter(t, [IdleFrame EXCEPT !.pc = "p_enabled", !.op = m, !.level = lv])
    /\ UNCHANGED <<config, mu, sinks, exited>>

\* Faulty variant: the level is looked at before the enabled flag.
PrintEnabledAfterLevel(t) ==
    /\ At(t, "p_enabled")
    /\ IF level > fr[t].level
          THEN fr' = [fr EXCEPT ![t].pc = "done", ![t].ret = ErrIgnored]
          ELSE IF ~enabled
                  THEN fr' = [fr EXCEPT ![t].pc = "done", ![t].ret = ErrDisabled]
                  ELSE Goto(t, "p_level")
    /\ UNCHANGED <<config, mu, sinks, tally, exited>>

\* plog.go 221-223
PrintEnabled(t) ==
    /\ At(t, "p_enabled")
    /\ IF ~enabled
          THEN fr' = [fr EXCEPT ![t].pc = "done", ![t].ret = ErrDisabled]
          ELSE Goto(t, "p_level")
    /\ UNCHANGED <<config, mu, sinks, tally, exited>>

\* Faulty variant: the comparison's operands are swapped.
PrintLevelSwapped(t) ==
    /\ At(t, "p_level")
    /\ IF fr[t].level > level
          THEN /\ fr' = [fr EXCEPT ![t].pc = "done", ![t].ret = ErrIgnored]
               /\ UNCHANGED tally
          ELSE /\ Goto(t, "p_require")
               /\ tally' = [tally EXCEPT !.passed = @ + 1]
    /\ UNCHANGED <<config, mu, sinks, exited>>

\* Faulty variant: a message at the minimum level itself is filtered too.
PrintLevelStrict(t) ==
    /\ At(t, "p_level")
    /\ IF level >= fr[t].level
          THEN /\ fr' = [fr EXCEPT ![t].pc = "done", ![t].ret = ErrIgnored]
               /\ UNCHANGED tally
          ELSE /\ Goto(t, "p_require")
               /\ tally' = [tally EXCEPT !.passed = @ + 1]
    /\ UNCHANGED <<config, mu, sinks, exited>>

\* Faulty variant: a filtered emission lowers the minimum level to its own.
PrintLevelLowers(t) ==
    /\ At(t, "p_level")
    /\ IF level > fr[t].level
          THEN /\ fr' = [fr EXCEPT ![t].pc = "done", ![t].ret = ErrIgnored]
               /\ level' = fr[t].level
               /\ UNCHANGED tally
          ELSE /\ Goto(t, "p_require")
               /\ tally' = [tally EXCEPT !.passed = @ + 1]
               /\ UNCHANGED level
    /\ UNCHANGED <<output, require, enabled, colored, mu, sinks, exited>>

\* plog.go 224-226
PrintLevel(t) ==
    /\ At(t, "p_level")
    /\ IF level > fr[t].level
          THEN /\ fr' = [fr EXCEPT ![t].pc = "done", ![t].ret = ErrIgnored]
               /\ UNCHANGED tally
          ELSE /\ Goto(t, "p_require")
               /\ tally' = [tally EXCEPT !.passed = @ + 1]
    /\ UNCHANGED <<config, mu, sinks, exited>>

\* Faulty variant: the marker is put in front whatever the mask.
PrintRequireMarker(t) ==
    /\ At(t, "p_require")
    /\ IF BitAnd(require, RequireAll) # 0
          THEN fr' = [fr EXCEPT ![t].pc = "p_caller", ![t].stats = <<"-">>]
          ELSE fr' = [fr EXCEPT ![t].pc = "p_lock", ![t].stats = <<"-">>]
    /\ UNCHANGED <<config, mu, sinks, tally, exited>>

\* plog.go 227-229: stats is "" unless one of the three bits is required
PrintRequire(t) ==
    /\ At(t, "p_require")
    /\ IF BitAnd(require, RequireAll) # 0
          THEN fr' = [fr EXCEPT ![t].pc = "p_caller", ![t].stats = <<"-">>]
          ELSE fr' = [fr EXCEPT ![t].pc = "p_lock", ![t].stats = <<>>]
    /\ UNCHANGED <<config, mu, sinks, tally, exited>>

\* plog.go 230-232
PrintCaller(t) ==
    /\ At(t, "p_caller")
    /\ IF BitAnd(require, RequireCaller) # 0
          THEN fr' = [fr EXCEPT ![t].pc = "p_time",
                                ![t].stats = Sprintf_s_s(getCall(3, t), fr[t].stats)]
          ELSE Goto(t, "p_time")
    /\ UNCHANGED <<config, mu, sinks, tally, exited>>

\* Faulty variant: the timestamp is added when the caller bit is set.
PrintTimestampByCallerBit(t) ==
    /\ At(t, "p_time")
    /\ IF BitAnd(require, RequireCaller) # 0
          THEN fr' = [fr EXCEPT ![t].pc = "p_label",
                                ![t].stats = Sprintf_br_s(getTimestamp, fr[t].stats)]
          ELSE Goto(t, "p_label")
    /\ UNCHANGED <<config, mu, sinks, tally, exited>>

\* plog.go 233-235
PrintTimestamp(t) ==
    /\ At(t, "p_time")
    /\ IF BitAnd(require, RequireTimestamp) # 0
          THEN fr' = [fr EXCEPT ![t].pc = "p_label",
                                ![t].stats = Sprintf_br_s(getTimestamp, fr[t].stats)]
          ELSE Goto(t, "p_label")
    /\ UNCHANGED <<config, mu, sinks, tally, exited>>

\* plog.go 236
PrintLabel(t) ==
    /\ At(t, "p_label")
    /\ IF BitAnd(require, RequireLevel) # 0
          THEN Goto(t, "p_colored")
          ELSE Goto(t, "p_lock")
    /\ UNCHANGED <<config, mu, sinks, tally, exited>>

\* Faulty variant: the colour mode reaches past the label, to the marker.
PrintColoredThrough(t) ==
    /\ At(t, "p_colored")
    /\ IF colored
          THEN fr' = [fr EXCEPT ![t].pc = "p_lock",
                                ![t].stats = Sprintf_br_s(getColoredLevel(fr[t].level),
                                                          <<colorReset>> \o fr[t].stats)]
          ELSE fr' = [fr EXCEPT ![t].pc = "p_lock",
                                ![t].stats = Sprintf_br_s(getRegularLevel(fr[t].level), fr[t].stats)]
    /\ UNCHANGED <<config, mu, sinks, tally, exited>>

\* plog.go 237-241
PrintColored(t) ==
    /\ At(t, "p_colored")
    /\ IF colored
          THEN fr' = [fr EXCEPT ![t].pc = "p_lock",
                                ![t].stats = Sprintf_br_s(getColoredLevel(fr[t].level), fr[t].stats)]
          ELSE fr' = [fr EXCEPT ![t].pc = "p_lock",
                                ![t].stats = Sprintf_br_s(getRegularLevel(fr[t].level), fr[t].stats)]
    /\ UNCHANGED <<config, mu, sinks, tally, exited>>

\* Faulty variant: print writes without taking the lock.
PrintLockSkipped(t) ==
    /\ At(t, "p_lock")
    /\ Goto(t, "p_write")
    /\ UNCHANGED <<config, mu, sinks, tally, exited>>

\* Faulty variant: print looks at the enabled flag again when it takes the lock.
PrintLockRechecks(t) ==
    /\ At(t, "p_lock")
    /\ mu = NoThread
    /\ IF enabled
          THEN mu' = t /\ Goto(t, "p_write")
          ELSE mu' = mu /\ fr' = [fr EXCEPT ![t].pc = "done", ![t].ret = ErrDisabled]
    /\ UNCHANGED <<config, sinks, tally, exited>>

\* plog.go 244
PrintLock(t) ==
    /\ At(t, "p_lock")
    /\ Lock(t)
    /\ Goto(t, "p_write")
    /\ UNCHANGED <<config, sinks, tally, exited>>

\* A sink takes a buffer in two parts, or refuses it and takes nothing.
WriteHead(w, t, text) ==
    sinks' = [sinks EXCEPT ![w] = Append(@, [by |-> t, text |-> SubSeq(text, 1, Len(text) - 1)])]
WriteTail(w, t, text) ==
    sinks' = [sinks EXCEPT ![w] = Append(@, [by |-> t, text |-> SubSeq(text, Len(text), Len(text))])]

\* Faulty variant: print writes to the sink the logger was made with.
PrintWriteFirstSink(t) ==
    /\ At(t, "p_write")
    /\ \/ /\ WriteHead("w1", t, Fprintf_s_s_nl(fr[t].stats, Message(t)))
          /\ fr' = [fr EXCEPT ![t].pc = "p_write2", ![t].out = "w1"]
          /\ UNCHANGED tally
       \/ /\ fr' = [fr EXCEPT ![t].pc = "p_return", ![t].out = "w1", ![t].werr = ErrWrite]
          /\ tally' = [tally EXCEPT !.refused = @ + 1]
          /\ UNCHANGED sinks
    /\ UNCHANGED <<config, mu, exited>>

\* plog.go 246-251: fmt.Fprintf(l.output, "%s %s\n", stats, fmt.Sprintf(format, attrs...))
PrintWrite(t) ==
    /\ At(t, "p_write")
    /\ \/ /\ WriteHead(output, t, Fprintf_s_s_nl(fr[t].stats, Message(t)))
          /\ fr' = [fr EXCEPT ![t].pc = "p_write2", ![t].out = output]
          /\ UNCHANGED tally
       \/ /\ fr' = [fr EXCEPT ![t].pc = "p_return", ![t].out = output, ![t].werr = ErrWrite]
          /\ tally' = [tally EXCEPT !.refused = @ + 1]
          /\ UNCHANGED sinks
    /\ UNCHANGED <<config, mu, exited>>

PrintWriteEnd(t) ==
    /\ At(t, "p_write2")
    /\ WriteTail(fr[t].out, t, Fprintf_s_s_nl(fr[t].stats, Message(t)))
    /\ fr' = [fr EXCEPT ![t].pc = "p_return", ![t].werr = Nil]
    /\ UNCHANGED <<config, mu, tally, exited>>

\* What print returns once the write is over (plog.go 252).
PrintResult(werr) == Nil

\* Faulty variant: print returns without the deferred Unlock.
PrintReturnKeepsLock(t) ==
    /\ At(t, "p_return")
    /\ fr' = [fr EXCEPT ![t].pc = "done", ![t].ret = PrintResult(fr[t].werr)]
    /\ UNCHANGED <<config, mu, sinks, tally, exited>>

\* plog.go 245, 252: the deferred Unlock, and the return
PrintReturn(t) ==
    /\ At(t, "p_return")
    /\ Unlock(t)
    /\ fr' = [fr EXCEPT ![t].pc = "done", ![t].ret = PrintResult(fr[t].werr)]
    /\ UNCHANGED <<config, sinks, tally, exited>>

\* ------------------------------------------------------------------ Line

CallLine(t, D) ==
    /\ CanCall(t, D)
    /\ Enter(t, [IdleFrame EXCEPT !.pc = "ln_lock", !.op = "Line"])
    /\ UNCHANGED <<config, mu, sinks, exited>>

LineLock(t) ==
    /\ At(t, "ln_lock")
    /\ Lock(t)
    /\ Goto(t, "ln_write")
    /\ UNCHANGED <<config, sinks, tally, exited>>

\* Faulty variant: Line passes the enabled gate as an emission does.
LineWriteGated(t) ==
    /\ At(t, "ln_write")
    /\ \/ /\ enabled
          /\ WriteTail(output, t, <<NL>>)
          /\ fr' = [fr EXCEPT ![t].pc = "ln_unlock", ![t].out = output, ![t].werr = Nil]
       \/ /\ ~enabled
          /\ fr' = [fr EXCEPT ![t].pc = "ln_unlock", ![t].out = output, ![t].werr = Nil]
          /\ UNCHANGED sinks
       \/ /\ fr' = [fr EXCEPT ![t].pc = "ln_unlock", ![t].out = output, ![t].werr = ErrWrite]
          /\ UNCHANGED sinks
    /\ UNCHANGED <<config, mu, tally, exited>>

\* plog.go 325: fmt.Fprintln(l.output), its result dropped
LineWrite(t) ==
    /\ At(t, "ln_write")
    /\ \/ /\ WriteTail(output, t, <<NL>>)
          /\ fr' = [fr EXCEPT ![t].pc = "ln_unlock", ![t].out = output, ![t].werr = Nil]
       \/ /\ fr' = [fr EXCEPT ![t].pc = "ln_unlock", ![t].out = output, ![t].werr = ErrWrite]
          /\ UNCHANGED sinks
    /\ UNCHANGED <<config, mu, tally, exited>>

LineUnlock(t) ==
    /\ At(t, "ln_unlock")
    /\ Unlock(t)
    /\ Goto(t, "done")
    /\ UNCHANGED <<config, sinks, tally, exited>>

\* ---------------------------------------------------------------- return

\* The call is over: the goroutine is free to make its next call.
Return(t) ==
    /\ At(t, "done")
    /\ fr[t].op # "Fatal"
    /\ fr' = [fr EXCEPT ![t] = IdleFrame]
    /\ UNCHANGED <<config, mu, sinks, tally, exited>>

\* Faulty variant: Fatal ends the process only when its line was written.
FatalExitOnSuccess(t) ==
    /\ At(t, "done")
    /\ fr[t].op = "Fatal"
    /\ fr[t].ret = Nil /\ fr[t].werr = Nil
    /\ exited' = TRUE
    /\ UNCHANGED <<config, mu, sinks, fr, tally>>

\* plog.go 319: os.Exit(0) once print has returned, whatever it returned
FatalExit(t) ==
    /\ At(t, "done")
    /\ fr[t].op = "Fatal"
    /\ exited' = TRUE
    /\ UNCHANGED <<config, mu, sinks, fr, tally>>

\* ------------------------------------------------------------------ spec

SetLevel(t, D) ==
    \/ CallSetLevel(t, D) \/ SetLevelCheck(t) \/ SetLevelLock(t)
    \/ SetLevelAssign(t) \/ SetLevelUnlock(t)
SetWriter(t, D) ==
    \/ CallSetWriter(t, D) \/ SetWriterLock(t) \/ SetWriterAssign(t) \/ SetWriterUnlock(t)
SetRequirements(t, D) ==
    \/ CallSetRequirements(t, D) \/ SetRequirementsLock(t)
    \/ SetRequirementsAssign(t) \/ SetRequirementsUnlock(t)
SetActivity(t, D) ==
    \/ CallSetActivity(t, D) \/ SetActivityLock(t) \/ SetActivityAssign(t) \/ SetActivityUnlock(t)
SetColoring(t, D) ==
    \/ CallSetColoring(t, D) \/ SetColoringLock(t) \/ SetColoringAssign(t) \/ SetColoringUnlock(t)
print(t, D) ==
    \/ CallEmit(t, D) \/ PrintEnabled(t) \/ PrintLevel(t) \/ PrintRequire(t)
    \/ PrintCaller(t) \/ PrintTimestamp(t) \/ PrintLabel(t) \/ PrintColored(t)
    \/ PrintLock(t) \/ PrintWrite(t) \/ PrintWriteEnd(t) \/ PrintReturn(t)
Line(t, D) ==
    \/ CallLine(t, D) \/ LineLock(t) \/ LineWrite(t) \/ LineUnlock(t)

\* What the callers pass. Racing goroutines pass a level below the range, one
\* inside it and one above it (the fixed-level methods add the other levels),
\* and the masks none / all only. A goroutine alone passes
\* every level argument; one that only logs passes every level and every mask.
RaceInputs ==
    [max |-> MaxCalls, newLevels |-> LevelArgs,
     levels |-> {LevelDebug - 1, LevelWarn, LevelFatal + 1},
     masks |-> {0, RequireAll},
     sinks |-> Sinks, ops |-> EmitOps]
SeqInputs == [RaceInputs EXCEPT !.max = MaxSeqCalls, !.levels = LevelArgs]
FmtInputs == [SeqInputs EXCEPT !.max = MaxFmtCalls, !.masks = MaskArgs]

Step(t, D) ==
    \/ SetLevel(t, D) \/ SetWriter(t, D) \/ SetRequirements(t, D)
    \/ SetActivity(t, D) \/ SetColoring(t, D)
    \/ print(t, D) \/ Line(t, D) \/ Return(t) \/ FatalExit(t)

InitWith(D) ==
    /\ \E lv \in D.newLevels, req \in D.masks, ansi \in BOOLEAN :
          NewLogger(lv, "w1", req, ansi)
    /\ sinks = [w \in Sinks |-> <<>>]
    /\ fr = [t \in Threads |-> IdleFrame]
    /\ tally = [calls |-> 0, passed |-> 0, refused |-> 0]
    /\ exited = FALSE

\* Two goroutines share the logger.
Init == InitWith(RaceInputs)
Next == \E t \in Threads : Step(t, RaceInputs)
Spec == Init /\ [][Next]_vars

\* One goroutine uses the logger.
SeqInit == InitWith(SeqInputs)
SeqNext == Step("t1", SeqInputs)
SeqSpec == SeqInit /\ [][SeqNext]_vars

\* One goroutine logs, under every mask.
FmtInit == InitWith(FmtInputs)
FmtNext == print("t1", FmtInputs) \/ Line("t1", FmtInputs) \/ Return("t1") \/ FatalExit("t1")
FmtSpec == FmtInit /\ [][FmtNext]_vars

\* One goroutine sets, with every level argument and every mask, and logs with Log.
SetInputs == [SeqInputs EXCEPT !.max = MaxSetCalls, !.masks = MaskArgs, !.ops = {"Log"}]
SetInit == InitWith(SetInputs)
SetNext ==
    \/ SetLevel("t1", SetInputs) \/ SetWriter("t1", SetInputs)
    \/ SetRequirements("t1", SetInputs) \/ SetActivity("t1", SetInputs)
    \/ SetColoring("t1", SetInputs)
    \/ print("t1", SetInputs) \/ Line("t1", SetInputs) \/ Return("t1")
SetSpec == SetInit /\ [][SetNext]_vars

\* One goroutine logs with Log at every level and switches the colour mode in
\* between, under each mask that asks for the level; nothing else is set.
ColInputs ==
    [SeqInputs EXCEPT !.max = MaxColCalls, !.ops = {"Log"},
                      !.masks = {m \in MaskArgs : BitAnd(m, RequireLevel) # 0}]
ColInit == InitWith(ColInputs)
ColNext == SetColoring("t1", ColInputs) \/ print("t1", ColInputs) \/ Return("t1")
ColSpec == ColInit /\ [][ColNext]_vars

\* One goroutine calls NewLogger with any level argument, sink, mask and colour
\* mode, and logs through the Logger it was given.
NewInit ==
    /\ NoLogger
    /\ sinks = [w \in Sinks |-> <<>>]
    /\ tally = [calls |-> 0, passed |-> 0, refused |-> 0]
    /\ exited = FALSE
    /\ \E lv \in FmtInputs.newLevels, w \in FmtInputs.sinks, req \in FmtInputs.masks,
          ansi \in BOOLEAN :
          fr = [t \in Threads |->
                   IF t = "t1"
                       THEN [IdleFrame EXCEPT !.pc = "new", !.op = "NewLogger", !.level = lv,
                                              !.out = w, !.req = req, !.flag = ansi]
                       ELSE IdleFrame]
NewNext ==
    \/ CallNewLogger("t1")
    \/ print("t1", FmtInputs) \/ Line("t1", FmtInputs) \/ Return("t1") \/ FatalExit("t1")
NewSpec == NewInit /\ [][NewNext]_vars

\* Two goroutines share the logger and a goroutine inside a call keeps being
\* scheduled until the call is over: the Go scheduler preempts, sync.Mutex hands
\* the lock to a waiter once it is free, and the sink's Write returns. The
\* logger starts at the highest level, the level argument is the one above it,
\* and the calls are the setters, Line, Log, Error and Fatal.
LiveInputs ==
    [RaceInputs EXCEPT !.max = MaxLiveCalls, !.newLevels = {LevelFatal},
                       !.levels = {LevelFatal + 1}, !.ops = {"Log", "Error", "Fatal"}]
LiveInit == InitWith(LiveInputs)
LiveNext == \E t \in Threads : Step(t, LiveInputs)
InCall(t) == fr[t].pc # "idle" /\ Step(t, LiveInputs)
Fairness == \A t \in Threads : WF_vars(InCall(t))
LiveSpec == LiveInit /\ [][LiveNext]_vars /\ Fairness

\* ------------------------------------------------------------ vocabulary

\* Positions at which the next step assigns a field of the Logger.
MutationPcs == {"sl_set", "sw_set", "sr_set", "sa_set", "sc_set"}
\* Positions inside a write to the sink (the next step reads l.output or writes).
SinkWritePcs == {"p_write", "p_write2", "ln_write"}
\* Positions at which the next step of print reads enabled, level, require or colored.
GateReadPcs ==
    {"p_enabled", "p_level", "p_require", "p_caller", "p_time", "p_label", "p_colored"}
\* Positions of print between passing both gates and the end of its write.
ComposingPcs ==
    {"p_require", "p_caller", "p_time", "p_label", "p_colored", "p_lock", "p_write", "p_write2"}

Emitting(t) == fr[t].op \in EmitOps
EmitDone(t) == Emitting(t) /\ fr[t].pc = "done"
\* print never reached its Fprintf: it wrote nothing.
NoWrite(t) == fr[t].out = NoValue /\ fr[t].werr = NoValue

\* The text of the last two chunks of the sink goroutine t wrote to.
LastLine(t) ==
    LET s == sinks[fr[t].out]
    IN  IF Len(s) < 2 THEN <<>> ELSE s[Len(s) - 1].text \o s[Len(s)].text
LastLineIsOf(t) ==
    LET s == sinks[fr[t].out]
    IN  Len(s) >= 2 /\ s[Len(s) - 1].by = t /\ s[Len(s)].by = t

Newlines(text) == Cardinality({i \in 1..Len(text) : text[i] = NL})
\* Lines with something on them: a newline that does not follow a newline.
NonEmptyLines(text) ==
    Cardinality({i \in 2..Len(text) : text[i] = NL /\ text[i - 1] # NL})
RECURSIVE SumOver(_, _)
SumOver(S, f) ==
    IF S = {} THEN 0
    ELSE LET x == CHOOSE y \in S : TRUE IN f[x] + SumOver(S \ {x}, f)
LinesLogged == SumOver(Sinks, [w \in Sinks |-> NonEmptyLines(Flat(sinks[w]))])

\* No chunk of another write sits between the two parts of a line.
Unbroken(w) ==
    LET s == sinks[w]
    IN  \A i \in 1..Len(s) :
            s[i].text # <<NL>> =>
                IF i = Len(s)
                    THEN fr[s[i].by].pc = "p_write2" /\ fr[s[i].by].out = w
                    ELSE s[i + 1].by = s[i].by /\ s[i + 1].text = <<NL>>

\* The line's segments, read from left to right: the bracketed level label, the
\* bracketed timestamp, the caller; each is there when its bit is in the mask.
HasBit(mask, bit) == BitAnd(mask, bit) # 0
LevelSegment(mask, lv, ansi) ==
    IF HasBit(mask, RequireLevel)
        THEN <<"[">> \o (IF ansi THEN getColoredLevel(lv) ELSE getRegularLevel(lv)) \o <<"]", " ">>
        ELSE <<>>
TimestampSegment(mask) ==
    IF HasBit(mask, RequireTimestamp) THEN <<"[">> \o getTimestamp \o <<"]", " ">> ELSE <<>>
CallerSegment(mask, t) ==
    IF HasBit(mask, RequireCaller) THEN getCall(3, t) \o <<" ">> ELSE <<>>
Contains(text, atoms) == \E i \in 1..Len(text) : text[i] \in atoms
\* Goroutine t's write has just been accepted by the sink.
Written(t) == fr[t].pc = "p_return" /\ fr[t].werr = Nil

\* ---------------------------------------------------------------- claims

\* C1: in every reachable state the minimum level is one of the five levels 0..4.
C1_LevelInRange == level \in LevelDebug..LevelFatal

\* C2: SetLevel with a value outside 0..4 returns the invalid-level error and
\* changes no field: the first step of such a call is its rejection.
C2_OutOfRangeRejected ==
    [][\A t \in Threads :
          ( /\ fr[t].op = "SetLevel"
            /\ ~levelRange(fr[t].level)
            /\ fr[t].pc # "done"
            /\ fr'[t] # fr[t] )
          => /\ fr'[t].pc = "done"
             /\ fr'[t].ret = ErrLevelRange
             /\ config' = config]_vars

\* C3: SetLevel with one of the five valid levels returns no error and the
\* minimum level is then that value (one goroutine: nothing changes it meanwhile).
C3_InRangeAccepted ==
    \A t \in Threads :
        (fr[t].op = "SetLevel" /\ fr[t].pc = "done" /\ levelRange(fr[t].level))
        => (fr[t].ret = Nil /\ level = fr[t].level)

\* C4: a goroutine about to assign a field, or inside a write to the sink, holds
\* the lock; at most one goroutine is in such a place; and in no sink do the
\* parts of two writes interleave.
C4_MutualExclusion ==
    /\ \A t \in Threads : fr[t].pc \in MutationPcs \cup SinkWritePcs => mu = t
    /\ Cardinality({t \in Threads : fr[t].pc \in MutationPcs \cup SinkWritePcs}) <= 1
    /\ \A w \in Sinks : Unbroken(w)

\* One goroutine is in the middle of its write while the other, its line
\* composed, waits for the lock.
C4_Witness ==
    \E t, u \in Threads :
        /\ t # u
        /\ fr[t].pc = "p_write2"
        /\ fr[u].pc = "p_lock"
        /\ fr[u].stats # <<>>

\* C5 as stated: no goroutine reads a configuration field without holding the lock.
C5_ReadsUnderLock ==
    \A t \in Threads : fr[t].pc \in GateReadPcs \cup {"p_write", "ln_write"} => mu = t

\* C5 amended: the lock is held at every assignment to a field and at print's
\* and Line's read of the sink field; print reads enabled, level, require and
\* colored without it.
C5_WritesAndSinkReadUnderLock ==
    /\ \A t \in Threads : fr[t].pc \in MutationPcs \cup {"p_write", "ln_write"} => mu = t
    /\ \A t \in Threads : fr[t].pc \in GateReadPcs => mu # t

\* print is about to read enabled, unlocked, while SetActivity, holding the lock,
\* is about to assign it.
C5_Witness ==
    \E t, u \in Threads :
        /\ fr[t].pc = "p_enabled"
        /\ fr[u].pc = "sa_set"
        /\ mu = u
        /\ fr[u].flag # enabled

\* C6: with the logger disabled, an emission at any level returns the disabled
\* error and reaches no write, whatever its level; with the logger enabled
\* (again), the level alone decides. One goroutine: what it finds at its return
\* is what it found at its gates.
C6_DisabledThenLevel ==
    \A t \in Threads :
        EmitDone(t) =>
            IF ~enabled
                THEN fr[t].ret = ErrDisabled /\ NoWrite(t)
                ELSE fr[t].ret = (IF level > fr[t].level THEN ErrIgnored ELSE Nil)

\* A disabled logger has refused an emission whose level passes the minimum level.
C6_Witness ==
    \E t \in Threads :
        /\ EmitDone(t)
        /\ ~enabled
        /\ levelRange(level)
        /\ fr[t].level >= level
        /\ fr[t].ret = ErrDisabled

\* C7 as stated: an enabled logger of valid minimum level L2 asked to emit at a
\* valid level L1 <= L2 writes nothing and returns the level-filtered error.
C7_FilteredAtOrBelow ==
    \A t \in Threads :
        ( /\ EmitDone(t) /\ enabled
          /\ levelRange(level) /\ levelRange(fr[t].level)
          /\ fr[t].level <= level )
        => (fr[t].ret = ErrIgnored /\ NoWrite(t))

\* C7 amended: the same for L1 < L2.
C7_FilteredBelow ==
    \A t \in Threads :
        ( /\ EmitDone(t) /\ enabled
          /\ levelRange(level) /\ levelRange(fr[t].level)
          /\ fr[t].level < level )
        => (fr[t].ret = ErrIgnored /\ NoWrite(t))

C7_Witness ==
    \E t \in Threads :
        /\ EmitDone(t) /\ enabled
        /\ level = LevelFatal /\ fr[t].level = LevelError
        /\ fr[t].ret = ErrIgnored

\* The parts of C8. An emission that finds the logger enabled and its level at
\* or above the minimum level passes the gates; one that passed them returns nil;
\* the write the sink accepts appends exactly that emission's line, with one
\* newline, at its end; and the lines logged are the emissions past the gates,
\* less those still composing or writing and those whose write the sink refused.
C8_PassesGates ==
    \A t \in Threads :
        /\ (fr[t].pc = "p_enabled" /\ fr'[t].pc # "p_enabled" /\ enabled)
              => fr'[t].pc = "p_level"
        /\ (fr[t].pc = "p_level" /\ fr'[t].pc # "p_level" /\ fr[t].level >= level)
              => fr'[t].pc = "p_require"
C8_OneLine ==
    /\ \A t \in Threads :
          EmitDone(t) => (fr[t].ret = Nil <=> ~NoWrite(t))
    /\ \A t \in Threads :
          (fr[t].pc = "p_return" /\ fr[t].werr = Nil) =>
              /\ LastLineIsOf(t)
              /\ LastLine(t) = Fprintf_s_s_nl(fr[t].stats, Message(t))
              /\ Newlines(LastLine(t)) = 1
              /\ LastLine(t)[Len(LastLine(t))] = NL
    /\ LinesLogged =
          tally.passed - tally.refused
          - Cardinality({t \in Threads : fr[t].pc \in ComposingPcs})
\* C8: both parts: each accepted emission passes the gates and appends exactly
\* one line, and the lines logged number the emissions that were not rejected.
C8_OneLinePerAcceptedEmission == []C8_OneLine /\ [][C8_PassesGates]_vars

\* Two goroutines have logged: the second line, at the minimum level itself, has
\* just been written behind the first.
C8_Witness ==
    \E t \in Threads :
        /\ fr[t].pc = "p_return" /\ fr[t].werr = Nil
        /\ levelRange(level) /\ fr[t].level = level
        /\ Len(sinks[fr[t].out]) = 4
        /\ sinks[fr[t].out][1].by # t
        /\ tally.passed = 2

\* C9: an emission whose write the sink refused returns the sink's error.
C9_WriteErrorReturned ==
    \A t \in Threads :
        (EmitDone(t) /\ fr[t].werr = ErrWrite) => fr[t].ret = ErrWrite

C11_SegmentsInOrder ==
    \A t \in Threads :
        (Written(t) /\ HasBit(require, RequireAll)) =>
            /\ LastLine(t) =
                  LevelSegment(require, fr[t].level, colored) \o TimestampSegment(require)
                  \o CallerSegment(require, t) \o <<"-", " ">> \o Message(t) \o <<NL>>
            /\ require = RequireLevel =>
                  /\ LastLine(t)[1] = "["
                  /\ ~Contains(LastLine(t), {getTimestamp[1], getCall(3, t)[1]})

\* A line with all three segments has been written.
C11_Witness ==
    \E t \in Threads :
        /\ Written(t)
        /\ require = RequireAll
        /\ fr[t].level = LevelError
        /\ colored
        /\ Len(LastLine(t)) = 16

\* Goroutine t takes a step of method m: its frame changes, and m is the method
\* it is in before or after the step.
StepOf(t, m) == fr'[t] # fr[t] /\ (fr[t].op = m \/ fr'[t].op = m)
\* The text of sink w grows by exactly the atoms added; no other sink changes.
Appends(w, added) ==
    /\ Flat(sinks'[w]) = Flat(sinks[w]) \o added
    /\ \A v \in Sinks \ {w} : sinks'[v] = sinks[v]

\* C12: Line changes no configuration field at any of its steps; it goes from its
\* call to its write whatever the minimum level, the enabled flag and the mask
\* are; the write the sink accepts adds exactly one newline to the sink in use,
\* and no other step of Line writes anything.
C12_LineOneNewline ==
    [][\A t \in Threads :
          StepOf(t, "Line") =>
              /\ config' = config
              /\ fr[t].pc = "idle" => fr'[t].pc = "ln_lock"
              /\ fr[t].pc = "ln_lock" => fr'[t].pc = "ln_write"
              /\ IF fr[t].pc = "ln_write" /\ fr'[t].werr = Nil
                    THEN Appends(output, <<NL>>)
                    ELSE sinks' = sinks]_vars

\* Line has written its newline through a disabled logger that was given every
\* metadata bit.
C12_Witness ==
    \E t \in Threads :
        /\ fr[t].op = "Line" /\ fr[t].pc = "ln_unlock" /\ fr[t].werr = Nil
        /\ ~enabled
        /\ require = RequireAll
        /\ Len(sinks[output]) >= 1
        /\ sinks[output][Len(sinks[output])].text = <<NL>>

\* C13: the process ends only through a call of Fatal whose print has returned,
\* the lock released; and every call of Fatal leads to the end of the process,
\* whether its line was written, the logger was disabled, the level was filtered
\* or the sink refused the write.
C13_ExitAfterEmission ==
    exited' # exited =>
        /\ exited'
        /\ \E t \in Threads : fr[t].op = "Fatal" /\ fr[t].pc = "done" /\ mu # t
C13_FatalTerminates ==
    /\ [][C13_ExitAfterEmission]_vars
    /\ \A t \in Threads : (fr[t].op = "Fatal") ~> exited

\* The process has ended after a Fatal whose write the sink refused.
C13_Witness ==
    \E t \in Threads :
        /\ exited
        /\ fr[t].op = "Fatal" /\ fr[t].pc = "done"
        /\ fr[t].werr = ErrWrite

\* C14: NewLogger with a level in 0..4 returns no error and a Logger that is
\* enabled, unlocked, and whose minimum level, sink, mask and colour mode are the
\* arguments; with a level outside 0..4 it returns the error and no Logger.
C14_NewLoggerChecked ==
    \A t \in Threads :
        fr[t].op = "NewLogger" =>
            CASE fr[t].pc = "new" -> NoLogger
              [] fr[t].pc = "done" ->
                    /\ levelRange(fr[t].level)
                    /\ fr[t].ret = Nil
                    /\ enabled /\ mu = NoThread
                    /\ level = fr[t].level /\ output = fr[t].out
                    /\ require = fr[t].req /\ colored = fr[t].flag
              [] fr[t].pc = "no_logger" ->
                    /\ ~levelRange(fr[t].level)
                    /\ fr[t].ret = ErrLevelRange
                    /\ NoLogger
              [] OTHER -> FALSE

\* NewLogger has returned a Logger of the highest level, with the second sink, a
\* mask of one unknown bit and colours.
C14_Witness ==
    \E t \in Threads :
        /\ fr[t].op = "NewLogger" /\ fr[t].pc = "done"
        /\ level = LevelFatal /\ output = "w2"
        /\ require = RequireAll + 1 /\ colored /\ enabled

\* The parts of C15. No step of a setter changes a field other than its own, or
\* a sink; and SetWriter, SetRequirements, SetActivity and SetColoring, whatever
\* their argument, have stored it when they return.
C15_OwnFieldOnly ==
    \A t \in Threads :
        /\ StepOf(t, "SetLevel") => UNCHANGED <<output, require, enabled, colored, sinks>>
        /\ StepOf(t, "SetWriter") => UNCHANGED <<level, require, enabled, colored, sinks>>
        /\ StepOf(t, "SetRequirements") => UNCHANGED <<level, output, enabled, colored, sinks>>
        /\ StepOf(t, "SetActivity") => UNCHANGED <<level, output, require, colored, sinks>>
        /\ StepOf(t, "SetColoring") => UNCHANGED <<level, output, require, enabled, sinks>>
C15_ArgumentStored ==
    \A t \in Threads :
        fr[t].pc = "done" =>
            /\ fr[t].op = "SetWriter" => output = fr[t].out
            /\ fr[t].op = "SetRequirements" => require = fr[t].req
            /\ fr[t].op = "SetActivity" => enabled = fr[t].flag
            /\ fr[t].op = "SetColoring" => colored = fr[t].flag
\* C15: each setter changes only its own field and writes nothing to a sink, and
\* the four setters without a result accept every argument.
C15_SettersOwnField == []C15_ArgumentStored /\ [][C15_OwnFieldOnly]_vars

\* SetRequirements has stored a mask of one unknown bit, after a line was logged.
C15_Witness ==
    \E t \in Threads :
        /\ fr[t].op = "SetRequirements" /\ fr[t].pc = "done"
        /\ fr[t].req = RequireAll + 1 /\ require = RequireAll + 1
        /\ Len(sinks["w1"]) = 2

\* The parts of C16. No step of an emission changes a field; an emission changes
\* a sink only at its write; it is rejected as disabled or filtered only at its
\* gates, before any write, and such a step changes nothing but the result.
C16_EmissionStep ==
    \A t \in Threads : \A m \in EmitOps :
        StepOf(t, m) =>
            /\ config' = config
            /\ sinks' # sinks => fr[t].pc \in {"p_write", "p_write2"}
            /\ fr'[t].ret \in {ErrDisabled, ErrIgnored} =>
                  /\ fr[t].pc \in {"p_enabled", "p_level"}
                  /\ fr'[t] = [fr[t] EXCEPT !.pc = "done", !.ret = fr'[t].ret]
                  /\ UNCHANGED <<mu, sinks, tally>>
C16_RejectedSilent ==
    \A t \in Threads :
        (EmitDone(t) /\ fr[t].ret \in {ErrDisabled, ErrIgnored}) => NoWrite(t)
\* C16: no emission changes the configuration, and one rejected as disabled or
\* filtered leaves the sinks as they were: its result is all there is to see.
C16_EmissionKeepsConfig == []C16_RejectedSilent /\ [][C16_EmissionStep]_vars

\* An emission has been filtered while the sink holds the other goroutine's line.
C16_Witness ==
    \E t \in Threads :
        /\ EmitDone(t) /\ fr[t].ret = ErrIgnored
        /\ fr[t].op = "Error"
        /\ Len(sinks[output]) = 2

\* The parts of C17. Each gate is decided against the field as it is when the
\* gate reads it; past the gates an emission goes on to its write whatever the
\* enabled flag and the minimum level have become; the label is rendered in the
\* colour mode found when it is rendered.
C17_GateDecidedOnce ==
    \A t \in Threads : \A m \in EmitOps :
        StepOf(t, m) =>
            /\ fr[t].pc = "p_enabled" => (fr'[t].pc = "p_level" <=> enabled)
            /\ fr[t].pc = "p_level" => (fr'[t].pc = "p_require" <=> level <= fr[t].level)
            /\ fr[t].pc \in ComposingPcs => fr'[t].pc \in ComposingPcs \cup {"p_return"}
            /\ fr[t].pc = "p_colored" =>
                  fr'[t].stats = LevelSegment(RequireLevel, fr[t].level, colored) \o fr[t].stats
\* C17: an emission reads each field once, when it gets there, and is not held
\* to a single configuration; what is atomic is each assignment and each write
\* to a sink, which no other write breaks into.
C17_NoSnapshot == [][C17_GateDecidedOnce]_vars /\ [](\A w \in Sinks : Unbroken(w))

\* A line has been written although the logger is disabled: the other goroutine's
\* SetActivity(false) returned before the emission, already past the gates, took
\* the lock it still holds.
C17_Witness ==
    \E t, u \in Threads :
        /\ t # u
        /\ Written(t) /\ mu = t
        /\ ~enabled
        /\ fr[u].op = "SetActivity" /\ fr[u].pc = "done" /\ ~fr[u].flag
        /\ tally.calls = 2

\* What can be told from a line alone: its ANSI atoms, the line without them, its
\* first bracketed segment, what follows it, and the name in that segment.
AnsiAtoms == {colorReset, colorBlue, colorGreen, colorYellow, colorRed, colorBoldRed}
LevelNames == {getRegularLevel(lv)[1] : lv \in LevelDebug..LevelFatal}
Plain(text) == SelectSeq(text, LAMBDA a : a \notin AnsiAtoms)
Closing(text) == CHOOSE k \in 1..Len(text) : text[k] = "]" /\ \A j \in 1..(k - 1) : text[j] # "]"
FirstSegment(text) == SubSeq(text, 1, Closing(text))
AfterFirstSegment(text) == SubSeq(text, Closing(text) + 1, Len(text))
NameIn(text) == Plain(FirstSegment(text))[2]
\* The i-th line of sink w, when every write to w is complete.
LineAt(w, i) == sinks[w][2 * i - 1].text \o sinks[w][2 * i].text
LinesIn(w) == 1..(Len(sinks[w]) \div 2)

\* C18: under a mask with the Level bit, a line written at one of the five
\* levels carries the ANSI codes exactly when the colour mode is on, and only
\* around the name in its level segment; and any two lines of the same level
\* (same mask, same message) are equal once the ANSI codes are taken out, equal
\* after the level segment as they stand, and differ exactly when one was
\* written with colours and the other without.
C18_ColourOnlyInLabel ==
    \A t \in Threads :
        (Written(t) /\ HasBit(require, RequireLevel)) =>
            /\ levelRange(fr[t].level) =>
                  /\ Contains(LastLine(t), AnsiAtoms) <=> colored
                  /\ ~Contains(AfterFirstSegment(LastLine(t)), AnsiAtoms)
                  /\ colored =>
                        /\ Len(FirstSegment(LastLine(t))) = 5
                        /\ FirstSegment(LastLine(t))[2] \in AnsiAtoms \ {colorReset}
                        /\ FirstSegment(LastLine(t))[4] = colorReset
                  /\ Plain(FirstSegment(LastLine(t))) =
                        <<"[">> \o getRegularLevel(fr[t].level) \o <<"]">>
            /\ \A i, j \in LinesIn(output) :
                  LET a == LineAt(output, i)
                      b == LineAt(output, j)
                  IN  (NameIn(a) = NameIn(b) /\ NameIn(a) \in LevelNames) =>
                          /\ Plain(a) = Plain(b)
                          /\ AfterFirstSegment(a) = AfterFirstSegment(b)
                          /\ a # b <=> (Contains(a, AnsiAtoms) # Contains(b, AnsiAtoms))
                          /\ a # b => FirstSegment(a) # FirstSegment(b)

\* The same message has been logged twice at one level under the full mask,
\* without colours and then, after SetColoring(true), with them.
C18_Witness ==
    \E t \in Threads :
        /\ Written(t) /\ colored
        /\ require = RequireAll
        /\ fr[t].level = LevelError
        /\ Len(sinks[output]) = 4
        /\ NameIn(LineAt(output, 1)) = NameIn(LineAt(output, 2))
        /\ ~Contains(LineAt(output, 1), AnsiAtoms)
        /\ Contains(LineAt(output, 2), AnsiAtoms)

\* The parts of C19. A sink changes only if it is the sink installed, at a step
\* of the goroutine that holds the lock and is inside its write; and while an
\* emission or Line holds the lock the sink installed stays the one it found
\* when it took the lock, so that both parts of its write go there.
C19_WritesToInstalled ==
    /\ \A w \in Sinks :
          sinks'[w] # sinks[w] =>
              /\ w = output /\ output' = output
              /\ mu \in Threads /\ mu' = mu
              /\ fr[mu].pc \in SinkWritePcs /\ fr'[mu].out = w
    /\ \A t \in Threads :
          (mu = t /\ fr[t].op \in EmitOps \cup {"Line"}) => output' = output
C19_WriterKeepsSink ==
    \A t \in Threads :
        (fr[t].pc \in {"p_write2", "p_return", "ln_unlock"}) => (mu = t /\ fr[t].out = output)
\* C19: a write goes to the sink installed when the writer took the lock; once
\* SetWriter has returned nothing is written to the sink it replaced.
C19_SinkAtLock == []C19_WriterKeepsSink /\ [][C19_WritesToInstalled]_vars

\* SetWriter has returned, and the emission of the other goroutine has written
\* its line to the new sink; the sink the logger was made with holds nothing.
C19_Witness ==
    \E t, u \in Threads :
        /\ t # u
        /\ Written(t) /\ fr[t].out = "w2" /\ output = "w2"
        /\ Len(sinks["w2"]) = 2 /\ sinks["w1"] = <<>>
        /\ fr[u].op = "SetWriter" /\ fr[u].pc = "done" /\ fr[u].out = "w2"
        /\ fr[t].stats # <<>>

\* Positions at which the next step takes the lock, and positions between the
\* taking of the lock and its release.
LockPcs == {"sl_lock", "sw_lock", "sr_lock", "sa_lock", "sc_lock", "p_lock", "ln_lock"}
HoldingPcs ==
    {"sl_set", "sl_unlock", "sw_set", "sw_unlock", "sr_set", "sr_unlock", "sa_set", "sa_unlock",
     "sc_set", "sc_unlock", "p_write", "p_write2", "p_return", "ln_write", "ln_unlock"}

\* The parts of C20. A goroutine holds the lock exactly between the taking and
\* the release of its own call: not when it is about to take it, not before,
\* and not once the call is over. The lock is taken only by the step of a
\* goroutine that is at its Lock, and the step that releases it ends the call,
\* so that a call takes it at most once; a call that ends with an error of the
\* gates or of the level check never had it.
C20_HeldInsideOnly ==
    /\ mu \in Threads \cup {NoThread}
    /\ \A t \in Threads : mu = t <=> fr[t].pc \in HoldingPcs
C20_LockOncePerCall ==
    \A t \in Threads :
        /\ (mu # t /\ mu' = t) => (mu = NoThread /\ fr[t].pc \in LockPcs)
        /\ (mu = t /\ mu' # t) => (mu' = NoThread /\ fr'[t].pc = "done")
        /\ (fr'[t] # fr[t] /\ fr'[t].ret \in {ErrDisabled, ErrIgnored, ErrLevelRange}) =>
              (fr[t].pc \notin LockPcs \cup HoldingPcs /\ mu' = mu)
\* C20: the lock discipline above; and, the goroutines inside a call being
\* scheduled fairly and the sink's Write returning, every call is eventually
\* over and the lock is eventually free, unless a Fatal has ended the process.
C20_NoDeadlock ==
    /\ []C20_HeldInsideOnly
    /\ [][C20_LockOncePerCall]_vars
    /\ \A t \in Threads : (fr[t].pc # "idle") ~> (fr[t].pc = "idle" \/ exited)
    /\ (mu # NoThread) ~> (mu = NoThread \/ exited)

\* SetLevel waits for the lock that Line, in its write, holds.
C20_Witness ==
    \E t, u \in Threads :
        /\ fr[t].pc = "sl_lock"
        /\ fr[u].pc = "ln_write"
        /\ mu = u
        /\ ~exited

====
